---- MODULE Spec2Model ----
(***************************************************************************)
(* kubectl-regex / kubectl-regex-match: one invocation of runCmd.          *)
(*                                                                         *)
(* The repository holds two variants of the command:                       *)
(*   "regex-match"  src/unnamed/part_000  (flags -A and --yes, matched     *)
(*                  list, confirmation, per-item accessor, counters)       *)
(*   "regex"        src/pkg/cmd/regex.go  (no such flags; delete is issued *)
(*                  inside the filter loop through the listing accessor)   *)
(* Both are modelled; the variable `variant` says which one runs.          *)
(*                                                                         *)
(* Strings that the code inspects character by character (resource names,  *)
(* patterns, the confirmation line) are given their characters by Chars.   *)
(***************************************************************************)
EXTENDS Naturals, Sequences, FiniteSets

VARIABLES
    variant,        \* which runCmd runs
    operation,      \* "get" | "delete"                (runCmd's operation)
    args,           \* positional arguments, 1..2      (runCmd's args)
    allNamespaces,  \* -A flag          (part_000:30,48)
    autoYes,        \* --yes flag       (part_000:31,49)
    ambientNS,      \* kubeFlags.ToRawKubeConfigLoader().Namespace()
    cluster,        \* the server's objects of the resolved type, in listing order
    initial,        \* cluster as it was when the invocation started
    pc,             \* position in runCmd
    re,             \* the compiled pattern
    ri,             \* accessor returned by BuildResourceInterface
    list,           \* list.Items
    matched,        \* matched []struct{NS, Name}
    idx,            \* loop position (1-based index of the next item)
    deleted,        \* deleted counter
    failed,         \* failed counter
    stdin,          \* the line on streams.In that the prompt consumed
    confirm,        \* the token Fscanln stored in confirm
    reads,          \* number of reads of streams.In
    calls,          \* external API calls issued so far, in order
    out,            \* lines written to streams.Out / stdout
    errOut,         \* lines written to streams.ErrOut / stderr
    reported,       \* the final "%d deleted, %d failed" line, <<>> until printed
    outcome,        \* "running" | "ok" | "error" | "panic"
    failure         \* the fatal error met, "none" if none

vars == <<variant, operation, args, allNamespaces, autoYes, ambientNS, cluster,
          initial, pc, re, ri, list, matched, idx, deleted, failed, stdin,
          confirm, reads, calls, out, errOut, reported, outcome, failure>>

(***************************************************************************)
(* Bounds and input sets                                                   *)
(***************************************************************************)
MaxItems == 2

Variants == {"regex-match", "regex"}
\* NewGetCmd and NewDeleteCmd are the only callers of runCmd, so its
\* "unknown operation" branch is never taken.
Operations == {"get", "delete"}
Names == {"app-a", "app-b", "web"}
Namespaces == {"foo", "bar"}
ResourceArgs == {"nodes", "ns", "pods", "pv", "bogus"}
ValidPatterns == {"", "app", "^web$", "p.*b", "^b"}
InvalidPatterns == {"(", "*a"}
Patterns == ValidPatterns \cup InvalidPatterns
StdinLines == {"", "y", "Y", "n", "yes", " y", "y n"}

\* The characters of every string the code scans.
Chars(s) ==
    CASE s = ""      -> <<>>
      [] s = "app-a" -> <<"a", "p", "p", "-", "a">>
      [] s = "app-b" -> <<"a", "p", "p", "-", "b">>
      [] s = "web"   -> <<"w", "e", "b">>
      [] s = "app"   -> <<"a", "p", "p">>
      [] s = "^web$" -> <<"^", "w", "e", "b", "$">>
      [] s = "p.*b"  -> <<"p", ".", "*", "b">>
      [] s = "^b"    -> <<"^", "b">>
      [] s = "("     -> <<"(">>
      [] s = "*a"    -> <<"*", "a">>
      [] s = "y"     -> <<"y">>
      [] s = "Y"     -> <<"Y">>
      [] s = "n"     -> <<"n">>
      [] s = "yes"   -> <<"y", "e", "s">>
      [] s = " y"    -> <<" ", "y">>
      [] s = "y n"   -> <<"y", " ", "n">>

Drop(s, k) == SubSeq(s, k + 1, Len(s))

(***************************************************************************)
(* regexp.Compile and Regexp.MatchString on the fragment                   *)
(*     ^? ( c | . | c* | .* )* $?                                          *)
(* and the two uncompilable patterns of InvalidPatterns.                   *)
(***************************************************************************)
\* regexp.Compile's error: "missing argument to repetition operator",
\* "invalid nested repetition operator", "missing closing )", "unexpected )".
CompileFails(p) ==
    \/ Len(p) > 0 /\ p[1] = "*"
    \/ \E i \in 1..Len(p) : i > 1 /\ p[i] = "*" /\ p[i - 1] = "*"
    \/ Cardinality({i \in 1..Len(p) : p[i] = "("})
         # Cardinality({i \in 1..Len(p) : p[i] = ")"})

RECURSIVE MatchHere(_, _)
MatchHere(p, t) ==
    IF p = <<>> THEN TRUE
    ELSE IF Len(p) >= 2 /\ p[2] = "*"
    THEN \E k \in 0..Len(t) :
            /\ \A j \in 1..k : p[1] = "." \/ t[j] = p[1]
            /\ MatchHere(Drop(p, 2), Drop(t, k))
    ELSE IF p = <<"$">> THEN t = <<>>
    ELSE /\ t # <<>>
         /\ p[1] = "." \/ p[1] = t[1]
         /\ MatchHere(Tail(p), Tail(t))

\* Variant of MatchString that demands the pattern to span the whole name.
MatchStringWhole(pattern, name) ==
    MatchHere(Chars(pattern) \o <<"$">>, Chars(name))

\* re.MatchString(name): an unanchored search.
MatchString(pattern, name) ==
    LET p == Chars(pattern)
        t == Chars(name)
    IN  IF p # <<>> /\ p[1] = "^"
        THEN MatchHere(Tail(p), t)
        ELSE \E i \in 0..Len(t) : MatchHere(p, Drop(t, i))

(***************************************************************************)
(* fmt.Fscanln(streams.In, &confirm) and strings.ToLower                   *)
(***************************************************************************)
RECURSIVE SkipSpace(_)
SkipSpace(t) == IF t # <<>> /\ t[1] = " " THEN SkipSpace(Tail(t)) ELSE t

RECURSIVE Token(_)
Token(t) == IF t = <<>> \/ t[1] = " " THEN <<>> ELSE <<t[1]>> \o Token(Tail(t))

\* The first space-delimited token of the line; what follows it makes Fscanln
\* return an error that runCmd ignores.
Fscanln(line) == Token(SkipSpace(Chars(line)))

LowerChar(c) == CASE c = "Y" -> "y" [] c = "N" -> "n" [] OTHER -> c

ToLower(t) == [i \in 1..Len(t) |-> LowerChar(t[i])]

Affirmative(tok) == ToLower(tok) = <<"y">>

(***************************************************************************)
(* The external resource-access API                                        *)
(***************************************************************************)
NoGVR == "<none>"

\* mapper.ResourceFor: the resolved resource, NoGVR when the lookup fails.
ResourceFor(resource) ==
    CASE resource = "nodes" -> "nodes"
      [] resource = "ns"    -> "namespaces"
      [] resource = "pods"  -> "pods"
      [] resource = "pv"    -> "persistentvolumes"
      [] OTHER              -> NoGVR

\* Whether the server keeps objects of this type per namespace.
Namespaced(gvr) == gvr = "pods"

Ref(ns, name) == [NS |-> ns, Name |-> name]

RefsOf(gvr) ==
    IF gvr = NoGVR THEN {}
    ELSE IF Namespaced(gvr) THEN {Ref(ns, n) : ns \in Namespaces, n \in Names}
    ELSE {Ref("", n) : n \in Names}

\* Sequences of distinct elements of S, of length at most k.
RECURSIVE DistinctSeqs(_, _)
DistinctSeqs(S, k) ==
    IF k = 0 THEN {<<>>}
    ELSE LET shorter == DistinctSeqs(S, k - 1)
         IN  shorter \cup
             UNION {{Append(s, x) : x \in S \ {s[i] : i \in 1..Len(s)}} :
                        s \in {q \in shorter : Len(q) = k - 1}}

Elems(s) == {s[i] : i \in 1..Len(s)}

Accessor(gvr, ns) == [resource |-> gvr, ns |-> ns]
NoRI == Accessor(NoGVR, "")

RECURSIVE SelectRefs(_, _)
SelectRefs(s, ns) ==
    IF s = <<>> THEN <<>>
    ELSE IF ns = "" \/ s[1].NS = ns
         THEN <<s[1]>> \o SelectRefs(Tail(s), ns)
         ELSE SelectRefs(Tail(s), ns)

\* ri.List fails on the server when a namespace-bound accessor is used for a
\* type that is not kept per namespace.
ListRejected(acc) == acc.ns # "" /\ ~Namespaced(acc.resource)

\* The items ri.List returns: the objects the accessor sees, in server order.
ListItems(objs, acc) == SelectRefs(objs, acc.ns)

RECURSIVE Without(_, _)
Without(s, x) ==
    IF s = <<>> THEN <<>>
    ELSE IF s[1] = x THEN Without(Tail(s), x)
         ELSE <<s[1]>> \o Without(Tail(s), x)

Call(op, ns, name, ok) == [op |-> op, ns |-> ns, name |-> name, ok |-> ok]

Line(kind, ns, name) == [kind |-> kind, ns |-> ns, name |-> name]

(***************************************************************************)
(* Scope Resolver: BuildResourceInterface                                  *)
(***************************************************************************)
\* Variant of ScopeNS that knows "nodes" only as cluster-scoped.
ScopeNSNodesOnly(v, gvr, allNs, ns) ==
    IF v = "regex-match"
    THEN IF gvr = "nodes" \/ allNs THEN "" ELSE ns
    ELSE IF gvr = "nodes" THEN "" ELSE ns

\* Variant of ScopeNS that never consults the all-namespaces flag.
ScopeNSIgnoresFlag(v, gvr, allNs, ns) ==
    IF gvr = "nodes" \/ gvr = "namespaces" THEN "" ELSE ns

\* The namespace the returned accessor is bound to; "" is the accessor
\* dynClient.Resource(gvr) that is bound to none.
ScopeNS(v, gvr, allNs, ns) ==
    IF v = "regex-match"
    THEN IF gvr = "nodes" \/ gvr = "namespaces" \/ allNs THEN "" ELSE ns
    ELSE IF gvr = "nodes" \/ gvr = "namespaces" THEN "" ELSE ns

BuildFaults == {"none", "config", "namespace"}

\* The whole function; fault names the external call that fails, if any.
BuildResourceInterface(v, resource, allNs, ns, fault) ==
    LET gvr == ResourceFor(resource)
        c1  == <<Call("config", "", "", fault # "config")>>
        c2  == c1 \o <<Call("resolve", "", resource, gvr # NoGVR)>>
        c3  == c2 \o <<Call("namespace", "", "", fault # "namespace")>>
    IN  IF fault = "config"
        THEN [err |-> "config", ri |-> NoRI, calls |-> c1]
        ELSE IF gvr = NoGVR
        THEN [err |-> "unknown resource", ri |-> NoRI, calls |-> c2]
        ELSE IF fault = "namespace"
        THEN [err |-> "config", ri |-> NoRI, calls |-> c3]
        ELSE [err |-> "none",
              ri |-> Accessor(gvr, ScopeNS(v, gvr, allNs, ns)),
              calls |-> c3]

(***************************************************************************)
(* Selector                                                                *)
(***************************************************************************)
\* Variant of FilterItems that collects the matches in reverse order.
RECURSIVE FilterItemsReversed(_, _)
FilterItemsReversed(pattern, items) ==
    IF items = <<>> THEN <<>>
    ELSE IF MatchString(pattern, items[1].Name)
         THEN FilterItemsReversed(pattern, Tail(items)) \o <<items[1]>>
         ELSE FilterItemsReversed(pattern, Tail(items))

\* The loop "for _, item := range list.Items { if re.MatchString(name) ... }".
RECURSIVE FilterItems(_, _)
FilterItems(pattern, items) ==
    IF items = <<>> THEN <<>>
    ELSE IF MatchString(pattern, items[1].Name)
         THEN <<items[1]>> \o FilterItems(pattern, Tail(items))
         ELSE FilterItems(pattern, Tail(items))

\* get: fmt.Println(name) for every match.
PrintNames(items) == [i \in 1..Len(items) |-> Line("name", "", items[i].Name)]

\* delete: the header and one "  ns/name" or "  name" line per match.
Present(resource, items) ==
    <<Line("header", "", resource)>> \o
    [i \in 1..Len(items) |-> Line("match", items[i].NS, items[i].Name)]

(***************************************************************************)
(* Mutation Executor                                                       *)
(***************************************************************************)
RebuildFaults == {"none", "config"}

\* "Rebuild client for proper namespace scoping".
RebuildClient(resource, fault) ==
    LET gvr == ResourceFor(resource)
        c1  == <<Call("config", "", "", fault # "config")>>
        c2  == c1 \o <<Call("resolve", "", resource, gvr # NoGVR)>>
    IN  IF fault = "config" THEN [err |-> "config", calls |-> c1]
        ELSE IF gvr = NoGVR THEN [err |-> "unknown resource", calls |-> c2]
        ELSE [err |-> "none", calls |-> c2]

\* Variant of TargetRI that deletes through the listing accessor always.
TargetRIShared(v, listRI, baseRI, m) == listRI

\* The accessor a delete goes through.
TargetRI(v, listRI, baseRI, m) ==
    IF v = "regex-match"
    THEN IF m.NS # "" THEN Accessor(baseRI.resource, m.NS) ELSE baseRI
    ELSE listRI

\* The object that targetRI.Delete(name) names on the server.
Addressed(acc, name) == Ref(acc.ns, name)

\* The outcomes targetRI.Delete can have: it fails when the server holds no
\* such object, and may fail for any other reason.
DeleteResults(objs, acc, name) ==
    IF Addressed(acc, name) \in Elems(objs) THEN {TRUE, FALSE} ELSE {FALSE}

AfterDelete(objs, acc, name, ok) ==
    IF ok THEN Without(objs, Addressed(acc, name)) ELSE objs

DeleteCalls(log) == SelectSeq(log, LAMBDA c : c.op = "delete")

(***************************************************************************)
(* One invocation                                                          *)
(***************************************************************************)
ArgLists == {<<r>> : r \in ResourceArgs} \cup
            {<<r, p>> : r \in ResourceArgs, p \in Patterns}

\* "var pattern string; if len(args) > 1 { pattern = args[1] }"
PatternOf(a) == IF Len(a) > 1 THEN a[2] ELSE ""

\* The flags -A and --yes exist in the regex-match variant only.
FlagValues(v) == IF v = "regex-match" THEN BOOLEAN ELSE {FALSE}

Init ==
    /\ variant \in Variants
    /\ operation \in Operations
    /\ args \in ArgLists
    /\ allNamespaces \in FlagValues(variant)
    /\ autoYes \in FlagValues(variant)
    /\ ambientNS \in Namespaces
    /\ cluster \in DistinctSeqs(RefsOf(ResourceFor(args[1])), MaxItems)
    /\ initial = cluster
    /\ pc = "compile"
    /\ re = ""
    /\ ri = NoRI
    /\ list = <<>>
    /\ matched = <<>>
    /\ idx = 1
    /\ deleted = 0
    /\ failed = 0
    /\ stdin = ""
    /\ confirm = <<>>
    /\ reads = 0
    /\ calls = <<>>
    /\ out = <<>>
    /\ errOut = <<>>
    /\ reported = <<>>
    /\ outcome = "running"
    /\ failure = "none"

inputs == <<variant, operation, args, allNamespaces, autoYes, ambientNS, initial>>

\* "return err": cobra prints the error on stderr and main exits 1.
ReturnErr(e) ==
    /\ pc' = "done"
    /\ outcome' = "error"
    /\ failure' = e
    /\ errOut' = Append(errOut, Line("error", "", e))

ReturnNil ==
    /\ pc' = "done"
    /\ outcome' = "ok"
    /\ UNCHANGED failure

\* re, err := regexp.Compile(pattern); if err != nil { panic(err) }
Compile ==
    /\ pc = "compile"
    /\ IF CompileFails(Chars(PatternOf(args)))
       THEN /\ pc' = "done"
            /\ outcome' = "panic"
            /\ errOut' = Append(errOut, Line("panic", "", PatternOf(args)))
            /\ UNCHANGED re
       ELSE /\ re' = PatternOf(args)
            /\ pc' = "build"
            /\ UNCHANGED <<outcome, errOut>>
    /\ UNCHANGED <<inputs, stdin, cluster, ri, list, matched, idx, deleted, failed,
                   confirm, reads, calls, out, reported, failure>>

\* ri, err := BuildResourceInterface(resource); if err != nil { return err }
Build ==
    /\ pc = "build"
    /\ \E fault \in BuildFaults :
          LET r == BuildResourceInterface(variant, args[1], allNamespaces,
                                          ambientNS, fault)
          IN  /\ calls' = calls \o r.calls
              /\ ri' = r.ri
              /\ IF r.err # "none"
                 THEN ReturnErr(r.err)
                 ELSE /\ pc' = "list"
                      /\ UNCHANGED <<outcome, failure, errOut>>
    /\ UNCHANGED <<inputs, stdin, cluster, re, list, matched, idx, deleted, failed,
                   confirm, reads, out, reported>>

\* list, err := ri.List(...); if err != nil { return err }
List ==
    /\ pc = "list"
    /\ \E ok \in (IF ListRejected(ri) THEN {FALSE} ELSE BOOLEAN) :
          /\ calls' = Append(calls, Call("list", ri.ns, "", ok))
          /\ IF ok
             THEN /\ list' = ListItems(cluster, ri)
                  /\ pc' = IF operation = "get" THEN "get"
                           ELSE IF variant = "regex-match" THEN "select"
                           ELSE "loop"
                  /\ UNCHANGED <<outcome, failure, errOut>>
             ELSE /\ ReturnErr("list")
                  /\ UNCHANGED list
    /\ UNCHANGED <<inputs, stdin, cluster, re, ri, matched, idx, deleted, failed,
                   confirm, reads, out, reported>>

\* case "get": print the name of every matching item.
Get ==
    /\ pc = "get"
    /\ out' = out \o PrintNames(FilterItems(re, list))
    /\ ReturnNil
    /\ UNCHANGED <<inputs, stdin, cluster, re, ri, list, matched, idx, deleted, failed,
                   confirm, reads, calls, errOut, reported>>

\* Variant of Select without the empty check.
SelectNoEmptyCheck ==
    /\ pc = "select"
    /\ matched' = FilterItems(re, list)
    /\ out' = out \o Present(args[1], matched')
    /\ pc' = IF autoYes THEN "rebuild" ELSE "confirm"
    /\ UNCHANGED <<inputs, stdin, cluster, re, ri, list, idx, deleted, failed,
                   confirm, reads, calls, errOut, reported, outcome, failure>>

\* case "delete" (regex-match): collect the matches, stop when there are none,
\* else display them.
Select ==
    /\ pc = "select"
    /\ matched' = FilterItems(re, list)
    /\ IF matched' = <<>>
       THEN /\ out' = Append(out, Line("no match", "", ""))
            /\ ReturnNil
       ELSE /\ out' = out \o Present(args[1], matched')
            /\ pc' = IF autoYes THEN "rebuild" ELSE "confirm"
            /\ UNCHANGED <<outcome, failure>>
    /\ UNCHANGED <<inputs, stdin, cluster, re, ri, list, idx, deleted, failed,
                   confirm, reads, calls, errOut, reported>>

\* if !autoYes { prompt; Fscanln; if ToLower(confirm) != "y" { Aborted } }
Confirm ==
    /\ pc = "confirm"
    /\ \E line \in StdinLines :
          /\ stdin' = line
          /\ confirm' = Fscanln(line)
          /\ reads' = reads + 1
          /\ IF ~Affirmative(confirm')
             THEN /\ out' = out \o <<Line("prompt", "", ""), Line("aborted", "", "")>>
                  /\ ReturnNil
             ELSE /\ out' = Append(out, Line("prompt", "", ""))
                  /\ pc' = "rebuild"
                  /\ UNCHANGED <<outcome, failure>>
    /\ UNCHANGED <<inputs, cluster, re, ri, list, matched, idx, deleted, failed,
                   calls, errOut, reported>>

\* restCfg, dynClient, mapper, gvr; deleted, failed := 0, 0
Rebuild ==
    /\ pc = "rebuild"
    /\ \E fault \in RebuildFaults :
          LET r == RebuildClient(args[1], fault)
          IN  /\ calls' = calls \o r.calls
              /\ IF r.err # "none"
                 THEN ReturnErr(r.err)
                 ELSE /\ pc' = "deleting"
                      /\ UNCHANGED <<outcome, failure, errOut>>
    /\ idx' = 1
    /\ deleted' = 0
    /\ failed' = 0
    /\ UNCHANGED <<inputs, stdin, cluster, re, ri, list, matched, confirm, reads, out,
                   reported>>

\* Variant of DeleteItem that leaves the loop at the first failed delete.
DeleteItemStopsOnFailure ==
    /\ pc = "deleting"
    /\ idx <= Len(matched)
    /\ LET m      == matched[idx]
           baseRI == Accessor(ResourceFor(args[1]), "")
           target == TargetRI(variant, ri, baseRI, m)
       IN  \E ok \in DeleteResults(cluster, target, m.Name) :
              /\ calls' = Append(calls, Call("delete", target.ns, m.Name, ok))
              /\ cluster' = AfterDelete(cluster, target, m.Name, ok)
              /\ IF ok
                 THEN /\ out' = Append(out, Line("deleted", m.NS, m.Name))
                      /\ deleted' = deleted + 1
                      /\ idx' = idx + 1
                      /\ UNCHANGED <<errOut, failed>>
                 ELSE /\ errOut' = Append(errOut, Line("failed", m.NS, m.Name))
                      /\ failed' = failed + 1
                      /\ idx' = Len(matched) + 1
                      /\ UNCHANGED <<out, deleted>>
    /\ UNCHANGED <<inputs, stdin, pc, re, ri, list, matched, confirm, reads,
                   reported, outcome, failure>>

\* One iteration of "for _, m := range matched".
DeleteItem ==
    /\ pc = "deleting"
    /\ idx <= Len(matched)
    /\ LET m      == matched[idx]
           baseRI == Accessor(ResourceFor(args[1]), "")
           target == TargetRI(variant, ri, baseRI, m)
       IN  \E ok \in DeleteResults(cluster, target, m.Name) :
              /\ calls' = Append(calls, Call("delete", target.ns, m.Name, ok))
              /\ cluster' = AfterDelete(cluster, target, m.Name, ok)
              /\ IF ok
                 THEN /\ out' = Append(out, Line("deleted", m.NS, m.Name))
                      /\ deleted' = deleted + 1
                      /\ UNCHANGED <<errOut, failed>>
                 ELSE /\ errOut' = Append(errOut, Line("failed", m.NS, m.Name))
                      /\ failed' = failed + 1
                      /\ UNCHANGED <<out, deleted>>
    /\ idx' = idx + 1
    /\ UNCHANGED <<inputs, stdin, pc, re, ri, list, matched, confirm, reads, reported,
                   outcome, failure>>

\* After the loop: the summary line, then "return nil".
Summary ==
    /\ pc = "deleting"
    /\ idx > Len(matched)
    /\ reported' = <<deleted, failed>>
    /\ ReturnNil
    /\ UNCHANGED <<inputs, stdin, cluster, re, ri, list, matched, idx, deleted, failed,
                   confirm, reads, calls, out, errOut>>

\* case "delete" (regex): one iteration of "for _, item := range list.Items".
LoopItem ==
    /\ pc = "loop"
    /\ idx <= Len(list)
    /\ LET item   == list[idx]
           target == TargetRI(variant, ri, ri, item)
       IN  IF MatchString(re, item.Name)
           THEN \E ok \in DeleteResults(cluster, target, item.Name) :
                  /\ calls' = Append(calls, Call("delete", target.ns, item.Name, ok))
                  /\ cluster' = AfterDelete(cluster, target, item.Name, ok)
                  /\ IF ok
                     THEN /\ out' = Append(out, Line("deleted", "", item.Name))
                          /\ UNCHANGED errOut
                     ELSE /\ errOut' = Append(errOut, Line("failed", "", item.Name))
                          /\ UNCHANGED out
           ELSE UNCHANGED <<calls, cluster, out, errOut>>
    /\ idx' = idx + 1
    /\ UNCHANGED <<inputs, stdin, pc, re, ri, list, matched, deleted, failed, confirm,
                   reads, reported, outcome, failure>>

\* After the loop: "return nil".
LoopEnd ==
    /\ pc = "loop"
    /\ idx > Len(list)
    /\ ReturnNil
    /\ UNCHANGED <<inputs, stdin, cluster, re, ri, list, matched, idx, deleted, failed,
                   confirm, reads, calls, out, errOut, reported>>

Next ==
    \/ Compile
    \/ Build
    \/ List
    \/ Get
    \/ Select
    \/ Confirm
    \/ Rebuild
    \/ DeleteItem
    \/ Summary
    \/ LoopItem
    \/ LoopEnd

Spec == Init /\ [][Next]_vars

\* The process exit status: 0, 1 from main's os.Exit(1), 2 from a panic.
ExitStatus == CASE outcome = "error" -> 1 [] outcome = "panic" -> 2 [] OTHER -> 0

TypeOK ==
    /\ pc \in {"compile", "build", "list", "get", "select", "confirm", "rebuild",
               "deleting", "loop", "done"}
    /\ outcome \in {"running", "ok", "error", "panic"}
    /\ (pc = "done") = (outcome # "running")
    /\ deleted \in 0..MaxItems /\ failed \in 0..MaxItems

(***************************************************************************)
(* Vocabulary of the properties                                            *)
(***************************************************************************)
Done == pc = "done"

NewDelete == variant = "regex-match" /\ operation = "delete"

\* The listing call was issued and succeeded.
Listed == \E i \in 1..Len(calls) : calls[i].op = "list" /\ calls[i].ok

\* The matches were collected (regex-match delete, past the filter loop).
Collected == NewDelete /\ Listed /\ pc # "select"

\* The delete loop ran to its end.
BatchCompleted ==
    /\ operation = "delete" /\ Listed /\ Done /\ outcome = "ok"
    /\ variant = "regex-match" => reported # <<>>

\* Positions of the listing whose name matches the compiled pattern.
Hits == {j \in 1..Len(list) : MatchString(re, list[j].Name)}

\* Rank of position j among the hits.
Rank(j) == Cardinality({k \in Hits : k <= j})

\* m holds exactly the matching items of the listing, in listing order.
IsMatchSet(m) ==
    /\ Len(m) = Cardinality(Hits)
    /\ \A j \in Hits : m[Rank(j)] = list[j]

Deletes == DeleteCalls(calls)

FailedDeletes == SelectSeq(Deletes, LAMBDA c : ~c.ok)

\* The objects removed from the server since the invocation started.
Removed == Elems(initial) \ Elems(cluster)

\* The lines of a kind on streams.Out.
OutLines(kind) == SelectSeq(out, LAMBDA l : l.kind = kind)

(***************************************************************************)
(* Properties                                                              *)
(***************************************************************************)

\* C1 (as claimed): Confirmation law. A delete call is issued only when --yes
\* was given or an affirmative answer was read before it; with a non-empty
\* MatchSet and no --yes, every input line other than exactly "y" or "Y" ends
\* the invocation with "Aborted.", no delete call and the server untouched.
C1_ConfirmationLaw ==
    /\ Deletes # <<>> => autoYes \/ (reads > 0 /\ stdin \in {"y", "Y"})
    /\ (operation = "delete" /\ Listed /\ Hits # {} /\ ~autoYes /\ Done
          /\ failure = "none" /\ stdin \notin {"y", "Y"})
       => /\ OutLines("aborted") # <<>>
          /\ Deletes = <<>>
          /\ cluster = initial

\* C2: Partial-failure law (regex-match delete). The counters count the
\* delete calls issued so far, by result, at every point of the loop; they
\* never decrease; and when the summary is reported every item of the
\* MatchSet was attempted and the summary is (N - K, K) for K failed deletes.
C2_CountersInv ==
    variant = "regex-match" =>
        /\ deleted + failed = Len(Deletes)
        /\ failed = Len(FailedDeletes)
        /\ pc = "deleting" => Len(Deletes) = idx - 1
        /\ reported # <<>> =>
              /\ Len(Deletes) = Len(matched)
              /\ reported = <<Len(matched) - Len(FailedDeletes), Len(FailedDeletes)>>

C2_PartialFailure ==
    /\ []C2_CountersInv
    /\ [][deleted' >= deleted /\ failed' >= failed]_vars

C2_Witness ==
    /\ NewDelete /\ Done
    /\ Len(matched) = 2
    /\ reported = <<1, 1>>
    /\ ~Deletes[1].ok /\ Deletes[2].ok

\* C3: The accessor built for a resource that resolves to "nodes" or
\* "namespaces" is bound to no namespace, whatever the all-namespaces flag and
\* the ambient namespace are; the listing goes through that accessor.
C3_ClusterScoped ==
    (ri # NoRI /\ ResourceFor(args[1]) \in {"nodes", "namespaces"}) =>
        /\ ri.ns = ""
        /\ \A i \in 1..Len(calls) : calls[i].op = "list" => calls[i].ns = ""

C3_Witness ==
    /\ Listed
    /\ args[1] = "ns" /\ ri.resource = "namespaces"
    /\ ~allNamespaces
    /\ list # <<>>

\* C4: For every other resolved resource the accessor is bound to no
\* namespace when the all-namespaces flag is set, and to exactly the ambient
\* namespace when it is not; the listing holds the objects of that scope.
C4_NamespaceScope ==
    (ri # NoRI /\ ResourceFor(args[1]) \notin {"nodes", "namespaces"}) =>
        /\ allNamespaces => ri.ns = ""
        /\ ~allNamespaces => ri.ns = ambientNS
        /\ Listed =>
              \A i \in 1..Len(list) : allNamespaces \/ list[i].NS = ambientNS

C4_Witness ==
    /\ Listed
    /\ ri.resource = "pods"
    /\ allNamespaces
    /\ Len(list) = 2 /\ list[1].NS # list[2].NS

\* C5: Selection is an order-preserving filter on names. The names get
\* prints, the matches delete collects and presents, and the names delete
\* issues calls for are exactly the items of the listing whose name matches,
\* in listing order, each once; items of one name are selected together.
C5_OrderPreservingFilter ==
    /\ (operation = "get" /\ Listed /\ Done) =>
          /\ Len(out) = Cardinality(Hits)
          /\ \A j \in Hits : out[Rank(j)] = Line("name", "", list[j].Name)
    /\ Collected =>
          /\ IsMatchSet(matched)
          /\ \A a, b \in 1..Len(list) :
                list[a].Name = list[b].Name =>
                    (list[a] \in Elems(matched)) = (list[b] \in Elems(matched))
          /\ matched # <<>> =>
                /\ Len(OutLines("match")) = Len(matched)
                /\ \A i \in 1..Len(matched) :
                      OutLines("match")[i] =
                          Line("match", matched[i].NS, matched[i].Name)
    /\ BatchCompleted =>
          /\ Len(Deletes) = Cardinality(Hits)
          /\ \A j \in Hits : Deletes[Rank(j)].name = list[j].Name

C5_Witness ==
    /\ Collected
    /\ Len(list) = 2 /\ list[1].Name = "web" /\ list[2].Name = "app-b"
    /\ matched = <<list[2]>>

\* C6: Empty-pattern law. With the pattern omitted or empty, every listed
\* item is selected, in listing order: get prints every name, delete collects
\* the whole listing and a completed batch has one delete call per item.
C6_EmptyPattern ==
    (PatternOf(args) = "" /\ Listed) =>
        /\ (operation = "get" /\ Done) => out = PrintNames(list)
        /\ Collected => matched = list
        /\ BatchCompleted =>
              /\ Len(Deletes) = Len(list)
              /\ \A i \in 1..Len(list) : Deletes[i].name = list[i].Name

C6_Witness ==
    /\ Collected
    /\ Len(args) = 1
    /\ Len(list) = 2 /\ matched = list

\* C7 (as claimed): An uncompilable pattern ends the invocation with an error
\* returned to the caller, before any external API call is made.
C7_InvalidPatternReported ==
    (Done /\ CompileFails(Chars(PatternOf(args)))) =>
        /\ outcome = "error"
        /\ calls = <<>>

\* C8 (as claimed): Exit behaviour. The invocation returns an error, that
\* is, exits non-zero, exactly when a configuration, type-resolution or
\* listing failure occurred; a delete batch that ran to completion returns
\* success whatever the number of failed deletes; after a failed listing
\* nothing is printed and nothing is deleted.
C8_ExitBehaviour ==
    Done =>
        /\ (outcome = "error") = (failure \in {"config", "unknown resource", "list"})
        /\ (ExitStatus # 0) = (failure \in {"config", "unknown resource", "list"})
        /\ reported # <<>> => outcome = "ok" /\ ExitStatus = 0
        /\ failure = "list" => out = <<>> /\ Deletes = <<>> /\ cluster = initial

\* C9: Empty check (regex-match delete). When no listed item matches, the
\* invocation reports that nothing matched and ends successfully, with no
\* read of the confirmation input, no further API call and no delete,
\* whether --yes is set or not.
C9_EmptyCheck ==
    (Collected /\ Hits = {}) =>
        /\ Done /\ outcome = "ok"
        /\ out = <<Line("no match", "", "")>>
        /\ reads = 0
        /\ Deletes = <<>>
        /\ calls[Len(calls)].op = "list"
        /\ cluster = initial

C9_Witness ==
    /\ Collected /\ Hits = {}
    /\ autoYes
    /\ Len(list) = 2

\* C10: Delete targeting. The delete calls issued so far are the leading
\* items of the MatchSet, in order and one call each, every call going through
\* an accessor bound to the item's own namespace (to none when the item has
\* none); a completed batch has called for every item; and the objects gone
\* from the server are exactly those of the calls that succeeded.
C10_MatchSetOfRun == IF variant = "regex-match" THEN matched
                     ELSE SelectSeq(list, LAMBDA r : MatchString(re, r.Name))

C10_DeleteTargeting ==
    /\ Len(Deletes) <= Len(C10_MatchSetOfRun)
    /\ \A i \in 1..Len(Deletes) :
          /\ Deletes[i].name = C10_MatchSetOfRun[i].Name
          /\ Deletes[i].ns = C10_MatchSetOfRun[i].NS
    /\ BatchCompleted => Len(Deletes) = Len(C10_MatchSetOfRun)
    /\ Removed = {Ref(Deletes[i].ns, Deletes[i].name) :
                    i \in {k \in 1..Len(Deletes) : Deletes[k].ok}}
    /\ Removed \subseteq Elems(list)

C10_Witness ==
    /\ NewDelete /\ Done /\ allNamespaces
    /\ Len(Deletes) = 2
    /\ Deletes[1].ns = "bar" /\ Deletes[2].ns = "foo"
    /\ Deletes[1].ok /\ Deletes[2].ok
    /\ cluster = <<>>

====
